---- MODULE Spec2Model ----
(***************************************************************************)
(* State-machine model of src/agent/twitter_to_discord.py: the RSS-to-     *)
(* Discord pipeline (load -> fetch -> dedupe -> rank -> deliver -> save),  *)
(* run once (--once) or in the endless loop of main().                     *)
(*                                                                         *)
(* Modelling conventions                                                   *)
(*  - A Python str is the sequence of its whitespace-separated tokens; the *)
(*    empty string is << >>.                                               *)
(*  - A feed entry (a dict) is a TLA+ function whose DOMAIN is the set of  *)
(*    keys that are present.                                               *)
(*  - hashlib.md5(..).hexdigest() is a collision-free tagging of its       *)
(*    argument.                                                            *)
(*  - The Python set sent_articles is the pair (ids, old): ids are the     *)
(*    identities named individually, old counts the further identities     *)
(*    that were loaded from the state file and that no configured feed     *)
(*    serves any more (they are interchangeable, only their number         *)
(*    matters).                                                            *)
(*  - time.sleep durations are kept in milliseconds.                       *)
(***************************************************************************)
EXTENDS Integers, Sequences, FiniteSets, TLC

(***************************************************************************)
(* Program constants                                                       *)
(***************************************************************************)
NumSources == 7
EntriesPerSource == 5
MAX_TOTAL_ARTICLES == 10
KeepLast == 2000
CHECK_INTERVAL == 21600
DefaultRetryAfter == 5
PacingMs == 1500

(***************************************************************************)
(* Bounds of the model                                                     *)
(***************************************************************************)
\* cycles of check_all_feeds over all processes of one behaviour
MaxCycles == 2
\* fetches that fail (feedparser.parse raising) in one behaviour
MaxFetchErrors == 2
\* delivery invocations that return False in one behaviour
MaxFailures == 1
\* consecutive 429 answers to one delivery invocation (recursion depth)
MaxRetries == 2
\* length of the article lists the ranking is tried on in RankSpec
MaxRankLen == 6
\* identities in the state file of the first process, below KeepLast
OldGap == 12
\* the same for the nearly full state file of NearFullSpec
NearFullGap == 9

HIGHLIGHT_KEYWORDS ==
    {"Claude", "GPT-5", "GPT-4", "o1", "o3", "Gemini", "breakthrough",
     "AGI", "safety", "alignment", "reasoning", "benchmark"}

Sources == 1..NumSources

Min(a, b) == IF a < b THEN a ELSE b

Reverse(s) == [i \in 1..Len(s) |-> s[Len(s) + 1 - i]]

(***************************************************************************)
(* Strings                                                                 *)
(***************************************************************************)
\* str.lower() on the tokens that occur in the feeds and the keyword list
Lower(w) ==
    CASE w = "Claude" -> "claude"
      [] w = "CLAUDE" -> "claude"
      [] w = "GPT-5" -> "gpt-5"
      [] w = "GPT-4" -> "gpt-4"
      [] w = "Gemini" -> "gemini"
      [] w = "AGI" -> "agi"
      [] w = "Safety" -> "safety"
      [] OTHER -> w

IsTag(w) == w \in {"<b>", "</b>", "<p>", "</p>"}

\* html.unescape on one token
Unescape(w) == IF w = "&amp;" THEN "&" ELSE w

\* clean_html: tags removed, entities decoded, whitespace collapsed
clean_html(text) ==
    LET kept == SelectSeq(text, LAMBDA w : ~IsTag(w))
    IN  [i \in 1..Len(kept) |-> Unescape(kept[i])]

is_highlight(text) ==
    \E i \in 1..Len(text) :
        Lower(text[i]) \in {Lower(kw) : kw \in HIGHLIGHT_KEYWORDS}

\* dict.get(key, default)
Get(d, key, default) == IF key \in DOMAIN d THEN d[key] ELSE default

Md5(s) == <<"md5", s>>

get_article_id(entry) ==
    Md5(Get(entry, "id", Get(entry, "link", Get(entry, "title", << >>))))

(***************************************************************************)
(* The feeds the sources serve (the environment)                           *)
(***************************************************************************)
Item(id, title, summary) ==
    [id |-> <<id>>, link |-> <<"http://", id>>, title |-> title,
     summary |-> summary]

Feed(s) ==
    CASE s = 1 ->
           << Item("a1", <<"weekly", "notes">>, <<"plain">>),
              Item("a2", <<"<b>", "CLAUDE", "</b>", "ships">>, <<"plain">>),
              Item("a3", <<"Q", "&amp;", "A">>, <<"plain">>),
              Item("a4", <<"hiring">>, << >>),
              Item("a5", <<"policy">>, <<"plain">>),
              Item("a6", <<"archive">>, <<"plain">>) >>
      [] s = 2 ->
           << Item("b1", <<"paper">>, <<"a", "new", "benchmark">>),
              Item("b2", <<"talk">>, <<"plain">>),
              Item("b3", <<"workshop">>, <<"plain">>),
              Item("b4", <<"Gemini", "update">>, <<"plain">>),
              Item("b5", <<"dataset">>, <<"plain">>) >>
      [] s = 3 ->
           << [link |-> <<"http://", "shared">>, title |-> <<"startup", "raises">>,
               summary |-> <<"plain">>] >>
      [] s = 4 -> << >>
      [] s = 5 ->
           << [link |-> <<"http://", "shared">>, title |-> <<"startup", "raises">>,
               description |-> <<"funding">>] >>
      [] s = 6 ->
           << [id |-> << >>, link |-> <<"http://", "f1">>, title |-> <<"chips">>,
               summary |-> <<"plain">>],
              [title |-> <<"robots">>] >>
      [] OTHER ->
           << Item("g1", <<"Show", "HN">>, <<"AI", "Safety", "tool">>) >>

(***************************************************************************)
(* The set sent_articles and the state file                                *)
(***************************************************************************)
EmptySet == [ids |-> {}, old |-> 0]

SetLen(s) == Cardinality(s.ids) + s.old

SetAdd(s, id) == [s EXCEPT !.ids = @ \cup {id}]

NoFile == [exists |-> FALSE, valid |-> FALSE, ids |-> {}, old |-> 0]

BadFile == [exists |-> TRUE, valid |-> FALSE, ids |-> {}, old |-> 0]

FileOf(s) == [exists |-> TRUE, valid |-> TRUE, ids |-> s.ids, old |-> s.old]

\* load_sent_articles that takes a file it cannot parse for an empty one
LoadLenient(file) ==
    IF file.exists /\ file.valid
    THEN [raised |-> FALSE, value |-> [ids |-> file.ids, old |-> file.old]]
    ELSE [raised |-> FALSE, value |-> EmptySet]

\* load_sent_articles: a missing file is the empty set, json.load of a
\* malformed file raises
load_sent_articles(file) ==
    IF ~file.exists THEN [raised |-> FALSE, value |-> EmptySet]
    ELSE IF ~file.valid THEN [raised |-> TRUE, value |-> EmptySet]
    ELSE [raised |-> FALSE, value |-> [ids |-> file.ids, old |-> file.old]]

\* the subsets of S with n elements
RECURSIVE SubsetsOfSize(_, _)
SubsetsOfSize(S, n) ==
    IF n = 0 THEN {{}}
    ELSE IF Cardinality(S) < n THEN {}
    ELSE LET x == CHOOSE y \in S : TRUE
         IN  SubsetsOfSize(S \ {x}, n) \cup
             {T \cup {x} : T \in SubsetsOfSize(S \ {x}, n - 1)}

\* json.dump(list(sent), f): the whole set is written
SaveAll(s) == {s}

\* list(sent)[-2000:] : the last KeepLast elements in the iteration order of
\* the set, which is the order of the hash table and not of insertion: any
\* KeepLast elements may be the ones that are written.  The result is the
\* set of the lists json.dump may be given.
save_sent_articles(s) ==
    LET n == SetLen(s)
        drop == IF n > KeepLast THEN n - KeepLast ELSE 0
    IN  { [ids |-> s.ids \ D, old |-> s.old - (drop - Cardinality(D))] :
            D \in UNION { SubsetsOfSize(s.ids, j) :
                            j \in {i \in 0..drop : drop - i <= s.old} } }

(***************************************************************************)
(* Feed Fetcher and Article Normalizer                                     *)
(***************************************************************************)
\* what feedparser.parse(url) does for source s: it raises, or it gives the
\* entries of the feed
Fetched(s) == [error |-> FALSE, entries |-> Feed(s)]

FetchError == [error |-> TRUE, entries |-> << >>]

\* fetch_feed without its try/except: the exception of feedparser.parse
\* reaches check_all_feeds
FetchFeedRaising(net) ==
    IF net.error THEN [raised |-> TRUE, value |-> << >>]
    ELSE [raised |-> FALSE, value |-> net.entries]

\* fetch_feed: the entries when there are some, [] when feedparser raised
\* or the feed is empty; never raises
fetch_feed(net) ==
    IF net.error THEN [raised |-> FALSE, value |-> << >>]
    ELSE IF net.entries # << >> THEN [raised |-> FALSE, value |-> net.entries]
    ELSE [raised |-> FALSE, value |-> << >>]

\* the entry loop without its test: every entry is taken as new
AlwaysNew(article_id, sent_articles) == FALSE

\* the test "article_id in sent_articles" of the entry loop
already_sent(article_id, sent_articles) == article_id \in sent_articles.ids

\* the dict appended to all_articles for an entry
Normalize(source, entry) ==
    LET title == clean_html(Get(entry, "title", <<"No", "title">>))
        summary == clean_html(Get(entry, "summary",
                                  Get(entry, "description", << >>)))
    IN  [source |-> source,
         title |-> title,
         link |-> Get(entry, "link", << >>),
         summary |-> summary,
         is_important |-> is_highlight(title) \/ is_highlight(summary),
         article_id |-> get_article_id(entry)]

\* the entry loop over entries instead of entries[:5]
AllEntries(entries) == entries

\* entries[:5]
TopEntries(entries) == SubSeq(entries, 1, Min(Len(entries), EntriesPerSource))

\* the loop "for entry in entries[:5]": the dicts it appends, in order
NewArticles(source, entries, sent_articles) ==
    LET new == SelectSeq(TopEntries(entries),
                         LAMBDA e : ~already_sent(get_article_id(e), sent_articles))
    IN  [i \in 1..Len(new) |-> Normalize(source, new[i])]

(***************************************************************************)
(* Relevance Ranker                                                        *)
(***************************************************************************)
\* the sort key, False < True
Key(a) == IF a.is_important THEN 1 ELSE 0

\* one step of the stable insertion: x goes after every element whose key
\* is not greater than its own
RECURSIVE InsertAfterEqual(_, _)
InsertAfterEqual(sorted, x) ==
    IF sorted = << >> THEN <<x>>
    ELSE IF Key(Head(sorted)) <= Key(x)
         THEN <<Head(sorted)>> \o InsertAfterEqual(Tail(sorted), x)
         ELSE <<x>> \o sorted

\* a stable ascending sort by Key
RECURSIVE StableSort(_)
StableSort(s) ==
    IF s = << >> THEN << >>
    ELSE InsertAfterEqual(StableSort(SubSeq(s, 1, Len(s) - 1)), s[Len(s)])

\* sorted(...)[::-1]: descending, but equal keys come out in reverse order
SortThenReverse(s) == Reverse(StableSort(s))

\* list.sort(key=is_important, reverse=True): the list is reversed, sorted
\* ascending by a stable sort and reversed again
SortImportantFirst(s) == Reverse(StableSort(Reverse(s)))

\* the ranked list without the slice
Uncapped(ranked) == ranked

\* all_articles[:MAX_TOTAL_ARTICLES]
TopArticles(ranked) == SubSeq(ranked, 1, Min(Len(ranked), MAX_TOTAL_ARTICLES))

(***************************************************************************)
(* Notifier                                                                *)
(***************************************************************************)
\* What requests.post gives: an exception (exc), or a response with a
\* status and a body; json says whether response.json() gives a dict,
\* has_retry whether that dict has the key retry_after.
Response(exc, status, json, has_retry, retry_after) ==
    [exc |-> exc, status |-> status, json |-> json, has_retry |-> has_retry,
     retry_after |-> retry_after]

Ok204 == Response(FALSE, 204, FALSE, FALSE, 0)

RateLimits ==
    { Response(FALSE, 429, TRUE, TRUE, 2),
      Response(FALSE, 429, TRUE, FALSE, 0) }

Refusals ==
    { Response(TRUE, 0, FALSE, FALSE, 0),
      Response(FALSE, 500, FALSE, FALSE, 0),
      Response(FALSE, 429, FALSE, FALSE, 0) }

\* send_to_discord whose 429 branch sleeps and then gives up
SendGiveUp(resp) ==
    IF ~resp.exc /\ resp.status = 204 THEN [ret |-> "true", sleep |-> 0]
    ELSE [ret |-> "false", sleep |-> 0]

\* send_to_discord whose 429 branch always sleeps the default
SendFixedWait(resp) ==
    IF resp.exc THEN [ret |-> "false", sleep |-> 0]
    ELSE IF resp.status = 204 THEN [ret |-> "true", sleep |-> 0]
    ELSE IF resp.status = 429 /\ resp.json
         THEN [ret |-> "retry", sleep |-> 1000 * DefaultRetryAfter]
    ELSE [ret |-> "false", sleep |-> 0]

\* one activation of send_to_discord on the answer to its POST: it returns
\* True, returns False, or sleeps and calls itself again ("retry")
send_to_discord(resp) ==
    IF resp.exc THEN [ret |-> "false", sleep |-> 0]
    ELSE IF resp.status = 204 THEN [ret |-> "true", sleep |-> 0]
    ELSE IF resp.status = 429
         THEN IF ~resp.json THEN [ret |-> "false", sleep |-> 0]
              ELSE [ret |-> "retry",
                    sleep |-> 1000 * (IF resp.has_retry THEN resp.retry_after
                                      ELSE DefaultRetryAfter)]
    ELSE [ret |-> "false", sleep |-> 0]

(***************************************************************************)
(* State                                                                   *)
(***************************************************************************)
VARIABLES
    pc,            \* where main() is: Start, Fetching, Ranking, Delivering,
                   \* Persisting, Sleeping, Terminal, Crashed
    once,          \* args.once
    sent,          \* the set sent / sent_articles of the running process
    sent_file,     \* the content of sent_articles.json
    src,           \* the source the loop over RSS_FEEDS is at
    all_articles,  \* the list all_articles of check_all_feeds
    top_articles,  \* the list top_articles of check_all_feeds
    unranked,      \* all_articles as it was collected, before the sort
    k,             \* the article of top_articles the delivery loop is at
    responses,     \* the answers to the POSTs of the delivery invocation
                   \* that is running or was the last to return
    ret,           \* that invocation: none, running, true, false
    slept,         \* the duration of the last time.sleep, in milliseconds
    cycles,        \* calls of check_all_feeds by the running process
    saves,         \* calls of save_sent_articles by the running process
    started,       \* calls of check_all_feeds since the initial state
    fetch_status,  \* per source, this cycle: pending, error or ok
    sent0,         \* sent when the cycle began
    calls,         \* the delivery invocations of the cycle that returned
    prev_failed,   \* the articles whose delivery returned False last cycle
    delivered_before, \* the identities whose delivery returned True in an
                   \* earlier cycle, of this process or of an earlier one
    fetch_errors,  \* fetches that failed since the initial state
    failures       \* delivery invocations that returned False since then

vars == <<pc, once, sent, sent_file, src, all_articles, top_articles, unranked, k,
          responses, ret, slept, cycles, saves, started, fetch_status, sent0,
          calls, prev_failed, delivered_before, fetch_errors, failures>>

\* the state file the first process finds: none, one that does not parse,
\* or one written by earlier runs
InitialFiles ==
    {NoFile, BadFile, FileOf([ids |-> {}, old |-> KeepLast - OldGap])}

Init ==
    /\ pc = "Start"
    /\ once = FALSE
    /\ sent = EmptySet
    /\ sent_file \in InitialFiles
    /\ src = 1
    /\ all_articles = << >>
    /\ top_articles = << >>
    /\ unranked = << >>
    /\ k = 1
    /\ responses = << >>
    /\ ret = "none"
    /\ slept = 0
    /\ cycles = 0
    /\ saves = 0
    /\ started = 0
    /\ fetch_status = [s \in Sources |-> "pending"]
    /\ sent0 = EmptySet
    /\ calls = << >>
    /\ prev_failed = {}
    /\ delivered_before = {}
    /\ fetch_errors = 0
    /\ failures = 0

\* entry of check_all_feeds(s)
BeginCycle(s) ==
    /\ pc' = "Fetching"
    /\ src' = 1
    /\ all_articles' = << >>
    /\ top_articles' = << >>
    /\ unranked' = << >>
    /\ k' = 1
    /\ responses' = << >>
    /\ ret' = "none"
    /\ started' = started + 1
    /\ fetch_status' = [x \in Sources |-> "pending"]
    /\ sent0' = s
    /\ calls' = << >>
    /\ prev_failed' = { [source |-> calls[i].source,
                         article_id |-> calls[i].article_id] :
                          i \in {j \in 1..Len(calls) : ~calls[j].ok} }
    /\ delivered_before' = delivered_before \cup
                             { calls[i].article_id :
                                 i \in {j \in 1..Len(calls) : calls[j].ok} }

\* main() up to the first call of check_all_feeds: the arguments are parsed
\* and the state file is loaded; an exception of the load ends the process
Start ==
    /\ pc = "Start"
    /\ started < MaxCycles
    /\ \E o \in BOOLEAN :
         LET r == load_sent_articles(sent_file)
         IN  /\ once' = o
             /\ IF r.raised
                THEN /\ pc' = "Crashed"
                     /\ UNCHANGED <<sent, src, all_articles, top_articles, unranked,
                                    k, responses, ret, cycles, started,
                                    fetch_status, sent0, calls, prev_failed, delivered_before>>
                ELSE /\ sent' = r.value
                     /\ cycles' = 1
                     /\ BeginCycle(r.value)
    /\ UNCHANGED <<sent_file, slept, saves, fetch_errors, failures>>

\* one turn of "for source, url in RSS_FEEDS.items()": the fetch and the
\* loop over its first entries
FetchSource ==
    /\ pc = "Fetching"
    /\ \E net \in {Fetched(src)} \cup
                  (IF fetch_errors < MaxFetchErrors THEN {FetchError} ELSE {}) :
         LET r == fetch_feed(net)
         IN  IF r.raised
             THEN /\ pc' = "Crashed"
                  /\ UNCHANGED <<src, all_articles, fetch_status, fetch_errors>>
             ELSE /\ all_articles' = all_articles \o NewArticles(src, r.value, sent)
                  /\ fetch_status' = [fetch_status EXCEPT
                                        ![src] = IF net.error THEN "error" ELSE "ok"]
                  /\ fetch_errors' = fetch_errors + (IF net.error THEN 1 ELSE 0)
                  /\ src' = src + 1
                  /\ pc' = IF src = NumSources THEN "Ranking" ELSE "Fetching"
    /\ UNCHANGED <<once, sent, sent_file, top_articles, unranked, k, responses, ret,
                   slept, cycles, saves, started, sent0, calls, prev_failed, delivered_before,
                   failures>>

\* all_articles.sort(...); top_articles = all_articles[:MAX_TOTAL_ARTICLES]
Rank ==
    /\ pc = "Ranking"
    /\ unranked' = all_articles
    /\ all_articles' = SortImportantFirst(all_articles)
    /\ top_articles' = TopArticles(all_articles')
    /\ k' = 1
    /\ pc' = "Delivering"
    /\ UNCHANGED <<once, sent, sent_file, src, responses, ret, slept, cycles,
                   saves, started, fetch_status, sent0, calls, prev_failed, delivered_before,
                   fetch_errors, failures>>

\* the article is marked whatever send_to_discord returned
MarkAlways(sent_articles, article, ok) == SetAdd(sent_articles, article.article_id)

\* "if send_to_discord(...): sent_articles.add(article['article_id'])"
MarkDelivered(sent_articles, article, ok) ==
    IF ok THEN SetAdd(sent_articles, article.article_id) ELSE sent_articles

\* the answers the webhook may give to the next POST
Answers(prior) ==
    {Ok204}
    \cup (IF Len(prior) < MaxRetries THEN RateLimits ELSE {})
    \cup (IF failures < MaxFailures THEN Refusals ELSE {})

\* one POST of the delivery of top_articles[k] and what follows its answer:
\* the sleep and the recursive call on a 429, or the return to the delivery
\* loop, which marks the article on True and goes to the next one
Post ==
    /\ pc = "Delivering"
    /\ k <= Len(top_articles)
    /\ LET prior == IF ret = "running" THEN responses ELSE << >>
           article == top_articles[k]
       IN  \E resp \in Answers(prior) :
             LET out == send_to_discord(resp)
             IN  /\ responses' = Append(prior, resp)
                 /\ IF out.ret = "retry"
                    THEN /\ ret' = "running"
                         /\ slept' = out.sleep
                         /\ UNCHANGED <<sent, k, calls, failures>>
                    ELSE /\ ret' = out.ret
                         /\ sent' = MarkDelivered(sent, article, out.ret = "true")
                         /\ slept' = IF out.ret = "true" THEN PacingMs ELSE slept
                         /\ k' = k + 1
                         /\ calls' = Append(calls,
                                        [source |-> article.source,
                                         article_id |-> article.article_id,
                                         ok |-> out.ret = "true"])
                         /\ failures' = failures + (IF out.ret = "true" THEN 0 ELSE 1)
    /\ UNCHANGED <<pc, once, sent_file, src, all_articles, top_articles, unranked,
                   cycles, saves, started, fetch_status, sent0, prev_failed, delivered_before,
                   fetch_errors>>

\* the delivery loop is over: check_all_feeds returns new_count and its
\* locals are gone
ReturnFromCheck ==
    /\ pc = "Delivering"
    /\ k > Len(top_articles)
    /\ pc' = "Persisting"
    /\ all_articles' = << >>
    /\ top_articles' = << >>
    /\ unranked' = << >>
    /\ responses' = << >>
    /\ ret' = "none"
    /\ UNCHANGED <<once, sent, sent_file, src, k, slept, cycles, saves, started,
                   fetch_status, sent0, calls, prev_failed, delivered_before, fetch_errors, failures>>

\* main() without the --once branch: it always sleeps and loops
AlwaysLoop(run_once) == "Sleeping"

\* what main() does after the save: it ends (--once) or sleeps and loops
AfterSave(run_once) == IF run_once THEN "Terminal" ELSE "Sleeping"

\* save_sent_articles(sent), then the end of main (--once) or
\* time.sleep(CHECK_INTERVAL)
Save ==
    /\ pc = "Persisting"
    /\ \E kept \in save_sent_articles(sent) : sent_file' = FileOf(kept)
    /\ saves' = saves + 1
    /\ pc' = AfterSave(once)
    /\ slept' = IF pc' = "Sleeping" THEN 1000 * CHECK_INTERVAL ELSE slept
    /\ UNCHANGED <<once, sent, src, all_articles, top_articles, unranked, k,
                   responses, ret, cycles, started, fetch_status, sent0, calls, prev_failed, delivered_before,
                   fetch_errors, failures>>

\* the sleep is over: the next turn of "while True"
Wake ==
    /\ pc = "Sleeping"
    /\ started < MaxCycles
    /\ cycles' = cycles + 1
    /\ BeginCycle(sent)
    /\ UNCHANGED <<once, sent, sent_file, slept, saves, fetch_errors, failures>>

\* the process has ended; cron starts the script again
Restart ==
    /\ pc = "Terminal"
    /\ started < MaxCycles
    /\ pc' = "Start"
    /\ once' = FALSE
    /\ sent' = EmptySet
    /\ cycles' = 0
    /\ saves' = 0
    /\ slept' = 0
    /\ UNCHANGED <<sent_file, src, all_articles, top_articles, unranked, k,
                   responses, ret, started, fetch_status, sent0, calls, prev_failed, delivered_before, fetch_errors,
                   failures>>

Next ==
    \/ Start
    \/ FetchSource
    \/ Rank
    \/ Post
    \/ ReturnFromCheck
    \/ Save
    \/ Wake
    \/ Restart

Spec == Init /\ [][Next]_vars

(***************************************************************************)
(* The ranking on arbitrary lists: the state after the fetch loop of a     *)
(* first cycle whose feeds served the entries of RankInputs                *)
(***************************************************************************)
Names == <<"A", "B", "C", "D", "E", "F", "G", "H">>

\* the entry of name Names[i], with a highlight keyword in its title when
\* flag holds
RankEntry(i, flag) ==
    Item(Names[i], IF flag THEN <<Names[i], "AGI">> ELSE <<Names[i]>>, << >>)

\* the lists of up to MaxRankLen new articles, with every pattern of
\* is_important
RankInputs ==
    UNION { { [i \in 1..n |-> Normalize(IF i <= EntriesPerSource THEN 1 ELSE 2,
                                        RankEntry(i, flags[i]))] :
                flags \in [1..n -> BOOLEAN] } :
            n \in 0..Min(MaxRankLen, Len(Names)) }

RankInit ==
    /\ pc = "Ranking"
    /\ once \in BOOLEAN
    /\ sent = EmptySet
    /\ sent_file = NoFile
    /\ src = NumSources + 1
    /\ all_articles \in RankInputs
    /\ top_articles = << >>
    /\ unranked = << >>
    /\ k = 1
    /\ responses = << >>
    /\ ret = "none"
    /\ slept = 0
    /\ cycles = 1
    /\ saves = 0
    /\ started = 1
    /\ fetch_status = [s \in Sources |-> "ok"]
    /\ sent0 = EmptySet
    /\ calls = << >>
    /\ prev_failed = {}
    /\ delivered_before = {}
    /\ fetch_errors = 0
    /\ failures = 0

RankSpec == RankInit /\ [][Rank]_vars

(***************************************************************************)
(* Operators the properties are stated with                                *)
(***************************************************************************)
\* main() is inside or just after a cycle (not before the load, not dead)
InCycle == pc \in {"Fetching", "Ranking", "Delivering", "Persisting",
                   "Sleeping", "Terminal"}

Last(s) == s[Len(s)]

\* the identities a delivery invocation was made for in this cycle
CalledIds ==
    {calls[i].article_id : i \in 1..Len(calls)}
    \cup (IF ret = "running" THEN {top_articles[k].article_id} ELSE {})

\* the identities whose delivery invocation returned True in this cycle
DeliveredIds == {calls[i].article_id : i \in {j \in 1..Len(calls) : calls[j].ok}}

\* the identities of the first entries of the feed of source s
ServedIds(s) ==
    {get_article_id(TopEntries(Feed(s))[i]) : i \in 1..Len(TopEntries(Feed(s)))}

\* the number of entries of source s that are examined and are new
NewCount(s) ==
    IF fetch_status[s] # "ok" THEN 0
    ELSE Cardinality({i \in 1..Len(TopEntries(Feed(s))) :
                        get_article_id(TopEntries(Feed(s))[i]) \notin sent0.ids})

RECURSIVE SumNew(_)
SumNew(s) == IF s = 0 THEN 0 ELSE NewCount(s) + SumNew(s - 1)

\* the important articles of a list, then the others, each in list order
ImportantFirst(s) ==
    SelectSeq(s, LAMBDA a : a.is_important)
    \o SelectSeq(s, LAMBDA a : ~a.is_important)

(***************************************************************************)
(* C1  Dedup idempotence: an identity that is in the delivered set when a  *)
(* cycle starts gets no delivery invocation in that cycle, is never a      *)
(* candidate, and is still in the set throughout and after the cycle.      *)
(***************************************************************************)
C1_DedupIdempotence ==
    InCycle =>
        /\ \A id \in sent0.ids :
             /\ id \notin CalledIds
             /\ id \in sent.ids
             /\ \A i \in 1..Len(all_articles) : all_articles[i].article_id # id
        /\ sent0.old = sent.old

\* a cycle has delivered something while a source served an entry that was
\* already in the set when the cycle started
C1_Witness ==
    /\ pc = "Persisting"
    /\ Len(calls) > 0
    /\ \E s \in Sources : fetch_status[s] = "ok" /\ ServedIds(s) \cap sent0.ids # {}

(***************************************************************************)
(* C2  Delivery gating: in a cycle the delivered set is the set the cycle  *)
(* started with plus exactly the identities whose delivery invocation      *)
(* returned True; an invocation returns True exactly when its last answer  *)
(* is a 204.                                                               *)
(***************************************************************************)
C2_DeliveryGating ==
    InCycle =>
        /\ sent.ids = sent0.ids \cup DeliveredIds
        /\ sent.old = sent0.old
        /\ ret = "true" => Last(responses) = Ok204
        /\ ret = "false" => Last(responses) # Ok204

\* a cycle in which one invocation returned True and one, for another
\* identity, returned False
C2_Witness ==
    /\ pc = "Delivering"
    /\ \E i, j \in 1..Len(calls) :
         /\ calls[i].ok
         /\ ~calls[j].ok
         /\ calls[j].article_id \notin DeliveredIds
         /\ calls[j].article_id \notin sent.ids

(***************************************************************************)
(* C3  Ranking stability: the ranked list is the important articles of the *)
(* collected list in their order, followed by the others in their order.   *)
(***************************************************************************)
C3_RankingStability ==
    pc = "Delivering" => all_articles = ImportantFirst(unranked)

\* [A(not), B(important), C(not), D(important)] has been ranked [B, D, A, C]
C3_Witness ==
    /\ pc = "Delivering"
    /\ Len(unranked) = 4
    /\ [i \in 1..4 |-> unranked[i].is_important] = <<FALSE, TRUE, FALSE, TRUE>>
    /\ [i \in 1..4 |-> all_articles[i].article_id] =
         <<Md5(<<"B">>), Md5(<<"D">>), Md5(<<"A">>), Md5(<<"C">>)>>

(***************************************************************************)
(* C4  Cap enforcement: the articles selected for delivery are the first   *)
(* min(n, 10) of the ranked list, n being the number of new entries over   *)
(* all sources; delivery invocations are made for these only, in order.    *)
(***************************************************************************)
C4_CapEnforcement ==
    /\ pc = "Delivering" =>
         /\ Len(all_articles) = SumNew(NumSources)
         /\ Len(top_articles) = Min(SumNew(NumSources), MAX_TOTAL_ARTICLES)
         /\ \A i \in 1..Len(top_articles) : top_articles[i] = all_articles[i]
         /\ k <= Len(top_articles) + 1
         /\ Len(calls) = k - 1
         /\ \A i \in 1..Len(calls) :
              /\ calls[i].article_id = top_articles[i].article_id
              /\ calls[i].source = top_articles[i].source
    /\ InCycle => Len(calls) <= MAX_TOTAL_ARTICLES

\* more than ten candidates from several sources, ten invocations made
C4_Witness ==
    /\ pc = "Delivering"
    /\ Len(all_articles) > MAX_TOTAL_ARTICLES
    /\ Len(calls) = MAX_TOTAL_ARTICLES
    /\ \A s \in Sources : NewCount(s) < MAX_TOTAL_ARTICLES

(***************************************************************************)
(* C5  Bounded persistence: after a save the file holds at most 2000       *)
(* identities, all of them members of the in-memory set.                   *)
(***************************************************************************)
C5_BoundedPersistence ==
    pc \in {"Sleeping", "Terminal"} =>
        /\ sent_file.exists
        /\ sent_file.valid
        /\ Cardinality(sent_file.ids) + sent_file.old <= KeepLast
        /\ sent_file.ids \subseteq sent.ids
        /\ sent_file.old <= sent.old

\* a save of a set of more than 2000 identities
C5_Witness ==
    /\ pc \in {"Sleeping", "Terminal"}
    /\ SetLen(sent) > KeepLast
    /\ Cardinality(sent_file.ids) + sent_file.old = KeepLast

(***************************************************************************)
(* C6  Fetch isolation: a failing fetch does not end the process; the      *)
(* failing source contributes no article, every source is fetched, and     *)
(* every new entry of every other source is a candidate.                   *)
(***************************************************************************)
C6_FetchIsolation ==
    /\ pc = "Crashed" => started = 0
    /\ pc \in {"Ranking", "Delivering"} =>
         \A s \in Sources :
            /\ fetch_status[s] \in {"ok", "error"}
            /\ fetch_status[s] = "error" =>
                 \A i \in 1..Len(all_articles) : all_articles[i].source # s
            /\ fetch_status[s] = "ok" =>
                 \A id \in ServedIds(s) \ sent0.ids :
                    \E i \in 1..Len(all_articles) :
                       /\ all_articles[i].source = s
                       /\ all_articles[i].article_id = id

\* a source failed and a later source still contributed a candidate
C6_Witness ==
    /\ pc = "Ranking"
    /\ \E s, u \in Sources :
         /\ s < u
         /\ fetch_status[s] = "error"
         /\ fetch_status[u] = "ok"
         /\ \E i \in 1..Len(all_articles) : all_articles[i].source = u

(***************************************************************************)
(* The delivery loop alone: a first cycle without a state file in which    *)
(* the fetches of the first two sources failed, from the state the ranking *)
(* leaves to the return of check_all_feeds.                                *)
(* Fairness: the process is single-threaded and every blocking call ends   *)
(* (the POST has a timeout, the sleeps are finite), so the loop always     *)
(* takes its next step.                                                    *)
(***************************************************************************)
\* what the fetch loop collects from the sources s..NumSources when those
\* in failed raise
RECURSIVE Collected(_, _, _)
Collected(s, failed, sent_articles) ==
    IF s > NumSources THEN << >>
    ELSE (IF s \in failed THEN << >>
          ELSE NewArticles(s, fetch_feed(Fetched(s)).value, sent_articles))
         \o Collected(s + 1, failed, sent_articles)

DeliveryInit ==
    /\ pc = "Delivering"
    /\ once \in BOOLEAN
    /\ sent = EmptySet
    /\ sent_file = NoFile
    /\ src = NumSources + 1
    /\ unranked = Collected(1, {1, 2}, EmptySet)
    /\ all_articles = SortImportantFirst(unranked)
    /\ top_articles = TopArticles(all_articles)
    /\ k = 1
    /\ responses = << >>
    /\ ret = "none"
    /\ slept = 0
    /\ cycles = 1
    /\ saves = 0
    /\ started = 1
    /\ fetch_status = [s \in Sources |-> IF s \in {1, 2} THEN "error" ELSE "ok"]
    /\ sent0 = EmptySet
    /\ calls = << >>
    /\ prev_failed = {}
    /\ delivered_before = {}
    /\ fetch_errors = 2
    /\ failures = 0

DeliveryNext == Post \/ ReturnFromCheck

DeliverySpec == DeliveryInit /\ [][DeliveryNext]_vars /\ WF_vars(DeliveryNext)

(***************************************************************************)
(* C7  (as claimed) One delivery invocation makes at most two POSTs.       *)
(***************************************************************************)
C7_AtMostTwoPosts == Len(responses) <= 2

(***************************************************************************)
(* C7  (amended) One delivery invocation makes one POST and one more after *)
(* every 429 answer whose body parses: every answer but the last is such a *)
(* 429, the invocation is still running after such a 429 and has returned  *)
(* after any other answer.                                                 *)
(***************************************************************************)
C7_OnePostPerRateLimit ==
    /\ \A i \in 1..(Len(responses) - 1) : responses[i] \in RateLimits
    /\ ret = "none" => responses = << >>
    /\ ret = "running" => responses # << >> /\ Last(responses) \in RateLimits
    /\ ret \in {"true", "false"} =>
         responses # << >> /\ Last(responses) \notin RateLimits

\* an invocation that returned True on its third POST
C7_Witness ==
    /\ ret = "true"
    /\ Len(responses) = 3
    /\ responses[1] \in RateLimits
    /\ responses[2] \in RateLimits

(***************************************************************************)
(* C8  429 handling: after a 429 the invocation sleeps retry_after seconds *)
(* (5 when the body has none) before it posts again; it returns True, with *)
(* the identity in the delivered set, when the run of 429s ends in a 204,  *)
(* and False when it ends in another status or an exception; and an        *)
(* invocation that is running eventually returns.                          *)
(***************************************************************************)
C8_Safety ==
    /\ ret = "running" =>
         slept = 1000 * (IF Last(responses).has_retry
                         THEN Last(responses).retry_after ELSE 5)
    /\ ret = "true" =>
         /\ Last(responses) = Ok204
         /\ Last(calls).ok
         /\ Last(calls).article_id = top_articles[k - 1].article_id
         /\ Last(calls).article_id \in sent.ids
    /\ ret = "false" =>
         /\ Last(responses) \in Refusals
         /\ ~Last(calls).ok
         /\ Last(calls).article_id = top_articles[k - 1].article_id

C9_Phases ==
    /\ pc = "Terminal" => once /\ cycles = 1 /\ saves = 1
    /\ pc = "Sleeping" => ~once /\ saves = cycles /\ slept = 21600 * 1000
    /\ pc \in {"Fetching", "Ranking", "Delivering", "Persisting"} =>
         saves = cycles - 1
    /\ InCycle /\ once => cycles = 1
    /\ pc \in {"Fetching", "Ranking"} => calls = << >> /\ ret = "none"
    /\ pc \in {"Ranking", "Delivering", "Persisting"} =>
         \A s \in Sources : fetch_status[s] # "pending"

C9_Step ==
    /\ pc' # pc =>
         <<pc, pc'>> \in
           { <<"Start", "Fetching">>, <<"Start", "Crashed">>,
             <<"Fetching", "Ranking">>, <<"Ranking", "Delivering">>,
             <<"Delivering", "Persisting">>,
             <<"Persisting", IF once THEN "Terminal" ELSE "Sleeping">>,
             <<"Sleeping", "Fetching">>, <<"Terminal", "Start">> }
    /\ pc = "Delivering" /\ pc' = "Persisting" => Len(calls) = Len(top_articles)
    /\ sent_file' # sent_file => pc = "Persisting"
    /\ pc = "Persisting" => pc' # pc /\ saves' = saves + 1
    /\ pc # "Persisting" /\ pc' # "Start" => saves' = saves
    /\ pc \notin {"Start", "Terminal"} => once' = once

\* C9: the phase rules hold in every state and every step follows the order
C9_CycleController == []C9_Phases /\ [][C9_Step]_vars

\* without --once: the second cycle has begun, after one save and the sleep
C9_Witness ==
    /\ pc = "Fetching"
    /\ ~once
    /\ cycles = 2
    /\ saves = 1
    /\ slept = 21600 * 1000

(***************************************************************************)
(* C10 (as claimed) An article whose delivery returned False in a cycle,   *)
(* and whose identity is therefore outside the delivered set, gets a       *)
(* delivery invocation in the next cycle whenever it is still among the    *)
(* first 5 entries its source serves.                                      *)
(***************************************************************************)
C10_FailedAlwaysRetried ==
    pc = "Persisting" =>
        \A f \in prev_failed :
           (/\ f.article_id \notin sent0.ids
            /\ fetch_status[f.source] = "ok"
            /\ f.article_id \in ServedIds(f.source))
           => \E i \in 1..Len(calls) :
                 /\ calls[i].source = f.source
                 /\ calls[i].article_id = f.article_id

(***************************************************************************)
(* C10 (amended) An article whose delivery returned False in a cycle has   *)
(* its identity outside the delivered set at the end of that cycle unless  *)
(* the delivery of another entry with the same identity returned True; in  *)
(* the next cycle, when its identity is not in the set and it is among the *)
(* first 5 entries its source serves, it is a candidate again, and a       *)
(* delivery invocation is made for it when it ranks among the first 10.    *)
(***************************************************************************)
C10_FailedRetriedWithinCap ==
    /\ pc \in {"Persisting", "Sleeping", "Terminal"} =>
         \A i \in 1..Len(calls) :
            (~calls[i].ok /\ calls[i].article_id \notin DeliveredIds)
            => calls[i].article_id \notin sent.ids
    /\ pc = "Delivering" =>
         \A f \in prev_failed :
            (/\ fetch_status[f.source] = "ok"
             /\ f.article_id \in ServedIds(f.source)
             /\ f.article_id \notin sent0.ids)
            => \E p \in 1..Len(all_articles) :
                  /\ all_articles[p].source = f.source
                  /\ all_articles[p].article_id = f.article_id
                  /\ (p <= MAX_TOTAL_ARTICLES /\ p < k) =>
                       /\ calls[p].source = f.source
                       /\ calls[p].article_id = f.article_id

\* an article whose delivery failed last cycle has been posted again
C10_Witness ==
    /\ pc = "Delivering"
    /\ \E f \in prev_failed :
          /\ f.article_id \notin sent0.ids
          /\ \E i \in 1..Len(calls) :
                /\ calls[i].source = f.source
                /\ calls[i].article_id = f.article_id

\* an article whose delivery failed last cycle is a candidate again but
\* ranks behind the first 10
C10_PushedOut ==
    /\ pc = "Delivering"
    /\ \E f \in prev_failed :
          \E p \in 1..Len(all_articles) :
             /\ p > MAX_TOTAL_ARTICLES
             /\ all_articles[p].source = f.source
             /\ all_articles[p].article_id = f.article_id

(***************************************************************************)
(* C11 (as claimed) DeliveredSet size: the set sent_articles that the      *)
(* entry loop tests membership in holds at most 2000 identities in every   *)
(* state of a process that runs without --once.                            *)
(***************************************************************************)
C11_SizeInvariant ==
    (InCycle /\ ~once) => SetLen(sent) <= KeepLast

(***************************************************************************)
(* C12 (as claimed) Oldest-first eviction: the identities a save leaves    *)
(* out are older than all those it writes.  The identities counted by old  *)
(* were delivered before every identity the feeds serve now, so as long as *)
(* there are enough of them to leave out, every named identity of the set, *)
(* and so every identity delivered in the cycle that just finished, is     *)
(* written.                                                                *)
(***************************************************************************)
C12_OldestEvictedFirst ==
    (pc \in {"Sleeping", "Terminal"} /\ SetLen(sent) - KeepLast <= sent.old)
    => /\ sent_file.ids = sent.ids
       /\ DeliveredIds \subseteq sent_file.ids

(***************************************************************************)
(* C13 (as claimed) Identity selection: the identity of an entry is the    *)
(* hash of the first non-empty value among its id, link and title, and of  *)
(* the empty string when there is none: every new entry among the first    *)
(* entries of a fetched source is a candidate under that identity.         *)
(***************************************************************************)
FirstNonEmpty(entry) ==
    LET id == Get(entry, "id", << >>)
        link == Get(entry, "link", << >>)
        title == Get(entry, "title", << >>)
    IN  IF id # << >> THEN id ELSE IF link # << >> THEN link ELSE title

C13_IdentitySelection ==
    pc \in {"Ranking", "Delivering"} =>
        \A s \in Sources :
           fetch_status[s] = "ok" =>
              \A p \in 1..Len(TopEntries(Feed(s))) :
                 LET e == TopEntries(Feed(s))[p]
                 IN  /\ get_article_id(e) = Md5(FirstNonEmpty(e))
                     /\ Md5(FirstNonEmpty(e)) \notin sent0.ids
                         => \E i \in 1..Len(all_articles) :
                               /\ all_articles[i].source = s
                               /\ all_articles[i].article_id =
                                      Md5(FirstNonEmpty(e))

(***************************************************************************)
(* C14 Malformed state is fatal at startup: when the state file exists and *)
(* does not parse, the process ends in the load, before the first fetch    *)
(* and the first delivery invocation, and the file stays as it is; when    *)
(* there is no file the load gives the empty set and the first cycle       *)
(* begins.                                                                 *)
(***************************************************************************)
C14_Crashed ==
    pc = "Crashed" =>
        /\ sent_file = BadFile
        /\ cycles = 0
        /\ saves = 0
        /\ calls = << >>
        /\ responses = << >>
        /\ all_articles = << >>
        /\ \A s \in Sources : fetch_status[s] = "pending"

C14_Step ==
    /\ (pc = "Start" /\ sent_file.exists /\ ~sent_file.valid)
       => pc' = "Crashed" /\ sent_file' = sent_file
    /\ (pc = "Start" /\ ~sent_file.exists)
       => /\ pc' = "Fetching"
          /\ sent' = [ids |-> {}, old |-> 0]
          /\ sent0' = sent'
          /\ cycles' = 1
          /\ sent_file' = sent_file
    /\ pc # "Crashed"

\* C14: a process that has ended in the load has done nothing else, the
\* load of a file that does not parse ends the process, the load of a
\* missing file starts the first cycle, and a process that has ended takes
\* no further step
C14_MalformedStateFatal == []C14_Crashed /\ [][C14_Step]_vars

\* the process has ended in the load of a file that does not parse
C14_Witness ==
    /\ pc = "Crashed"
    /\ sent_file.exists
    /\ ~sent_file.valid

(***************************************************************************)
(* C15 Per-cycle growth: during a cycle the delivered set loses no member, *)
(* and it has grown since the beginning of the cycle by at most 10         *)
(* identities and by at most the number of delivery invocations of the     *)
(* cycle that returned True.                                               *)
(***************************************************************************)
C15_Growth ==
    InCycle =>
        /\ sent0.ids \subseteq sent.ids
        /\ sent0.old <= sent.old
        /\ SetLen(sent) - SetLen(sent0) <= 10
        /\ SetLen(sent) - SetLen(sent0)
               <= Cardinality({j \in 1..Len(calls) : calls[j].ok})

C15_Step ==
    (InCycle /\ pc' \notin {"Start", "Crashed"})
    => sent.ids \subseteq sent'.ids /\ sent.old <= sent'.old

\* C15: the bounds on the growth hold in every state of a cycle and no step
\* of a process removes a member
C15_PerCycleGrowth == []C15_Growth /\ [][C15_Step]_vars

\* a cycle in which ten invocations returned True: the set has grown by 10
C15_Witness ==
    /\ pc = "Persisting"
    /\ Cardinality({j \in 1..Len(calls) : calls[j].ok}) = 10
    /\ SetLen(sent) - SetLen(sent0) = 10

(***************************************************************************)
(* C16 (as claimed) No duplicate delivery inside one cycle: at most one    *)
(* delivery invocation of a cycle returns True per identity.               *)
(***************************************************************************)
C16_NoDuplicateDelivery ==
    InCycle =>
        \A i, j \in 1..Len(calls) :
           (i # j /\ calls[i].ok /\ calls[j].ok)
           => calls[i].article_id # calls[j].article_id

(***************************************************************************)
(* C19 Per-source entry cap: every candidate of a cycle is the normalized  *)
(* form of one of the first 5 entries its source serves, so a source has   *)
(* at most 5 candidates and the ranking gets at most 5 times the number of *)
(* sources; an identity that is served only at position 6 or later is      *)
(* neither a candidate nor passed to a delivery invocation.                *)
(***************************************************************************)
\* the identities source s serves at position 6 or later
LateIds(s) == {get_article_id(Feed(s)[p]) : p \in 6..Len(Feed(s))}

\* the identities some source serves at one of its first 5 positions
EarlyIds ==
    UNION { {get_article_id(Feed(s)[p]) : p \in 1..Min(5, Len(Feed(s)))} :
            s \in Sources }

C19_PerSourceCap ==
    /\ pc \in {"Fetching", "Ranking", "Delivering"} =>
         /\ \A i \in 1..Len(all_articles) :
              \E p \in 1..Min(5, Len(Feed(all_articles[i].source))) :
                 all_articles[i] =
                    Normalize(all_articles[i].source,
                              Feed(all_articles[i].source)[p])
         /\ \A s \in Sources :
              Cardinality({i \in 1..Len(all_articles) :
                             all_articles[i].source = s}) <= 5
         /\ Len(all_articles) <= 5 * Cardinality(Sources)
    /\ InCycle =>
         \A s \in Sources :
            \A id \in LateIds(s) \ EarlyIds :
               /\ id \notin CalledIds
               /\ id \notin sent.ids
               /\ \A i \in 1..Len(all_articles) : all_articles[i].article_id # id

\* a source that serves 6 new entries has been fetched: its first 5 are
\* candidates and deliveries have been made
C19_Witness ==
    /\ pc = "Delivering"
    /\ \E s \in Sources :
          /\ Len(Feed(s)) > 5
          /\ fetch_status[s] = "ok"
          /\ LateIds(s) \ EarlyIds # {}
          /\ Cardinality({i \in 1..Len(all_articles) :
                            all_articles[i].source = s}) = 5
    /\ Len(calls) > 0

(***************************************************************************)
(* A state file that is nearly full: the first process finds a file of     *)
(* KeepLast - NearFullGap identities that no feed serves any more, so that *)
(* the first cycle can take the set beyond KeepLast.  No fetch fails and   *)
(* no delivery is refused in these behaviours (the webhook may still       *)
(* answer 429).                                                            *)
(***************************************************************************)
NearFullInit ==
    /\ pc = "Start"
    /\ once = FALSE
    /\ sent = EmptySet
    /\ sent_file = FileOf([ids |-> {}, old |-> KeepLast - NearFullGap])
    /\ src = 1
    /\ all_articles = << >>
    /\ top_articles = << >>
    /\ unranked = << >>
    /\ k = 1
    /\ responses = << >>
    /\ ret = "none"
    /\ slept = 0
    /\ cycles = 0
    /\ saves = 0
    /\ started = 0
    /\ fetch_status = [s \in Sources |-> "pending"]
    /\ sent0 = EmptySet
    /\ calls = << >>
    /\ prev_failed = {}
    /\ delivered_before = {}
    /\ fetch_errors = MaxFetchErrors
    /\ failures = MaxFailures

NearFullSpec == NearFullInit /\ [][Next]_vars

(***************************************************************************)
(* C17 (as claimed) No re-delivery across restarts: in a sequence of       *)
(* --once runs that share the state file, no delivery invocation is made   *)
(* for an identity whose delivery returned True in an earlier run.         *)
(***************************************************************************)
C17_NoRedelivery ==
    (InCycle /\ once) => CalledIds \cap delivered_before = {}

(***************************************************************************)
(* C18 (as claimed) State-file consistency: in the sleep between two       *)
(* cycles and after the end of a --once run the file holds the in-memory   *)
(* set when that has at most 2000 identities (loading it gives the set     *)
(* back) and a subset of it otherwise; during the delivery loop the        *)
(* in-memory set is the content of the file plus the identities delivered  *)
(* so far in the cycle.                                                    *)
(***************************************************************************)
C18_FileConsistency ==
    /\ pc \in {"Sleeping", "Terminal"} =>
         /\ sent_file.exists
         /\ sent_file.valid
         /\ IF SetLen(sent) <= KeepLast
            THEN load_sent_articles(sent_file) = [raised |-> FALSE, value |-> sent]
            ELSE sent_file.ids \subseteq sent.ids /\ sent_file.old <= sent.old
    /\ pc = "Delivering" =>
         /\ sent.ids = sent_file.ids \cup DeliveredIds
         /\ sent.old = sent_file.old

====
